---- MODULE Spec2Model ----
(***************************************************************************)
(* Model of src/src/App.jsx: the App component's state, the handleSearch   *)
(* lookup (zipToCountyFips, then fetchNRIData) and the pure score mappings *)
(* getRiskRating and scoreToOdds.                                          *)
(*                                                                         *)
(* JavaScript values are tagged records: Null, Undefined, Num(n), Str(s),  *)
(* Arr(seq) and plain records for objects.  ZIP and FIPS codes are         *)
(* sequences of one-character strings so that trim, replace, slice,        *)
(* substring and the regular expression are computed character by          *)
(* character.  Scores are held in units of 1/ScoreScale.                   *)
(***************************************************************************)
EXTENDS Integers, Sequences, FiniteSets, TLC

VARIABLES
    activeTab,       \* useState("calculator")
    zipCode,         \* useState("")
    loading,         \* useState(false)
    error,           \* useState(null)
    locationInfo,    \* useState(null)
    nriData,         \* useState(null)
    expandedHazard,  \* useState(null)
    hasSearched,     \* useState(false)
    sessions,        \* the handleSearch invocations that passed validation:
                     \* their position, their locals while they run and the
                     \* kinds of the requests they have issued
    inflight,        \* the fetch() requests that have not been answered yet
    evalScore,       \* the score passed to getRiskRating and scoreToOdds
    evalRating,      \* what getRiskRating returned for it
    evalKey,         \* the hazardKey passed to scoreToOdds
    evalOdds,        \* what scoreToOdds returned
    evalCounty,      \* the county entry of a geocoder answer
    evalLocation,    \* what zipToCountyFips returned for it
    evalRequest      \* the request fetchNRIData builds for that location

appState == <<activeTab, zipCode, loading, error, locationInfo, nriData,
              expandedHazard, hasSearched>>

evalState == <<evalScore, evalRating, evalKey, evalOdds, evalCounty, evalLocation,
               evalRequest>>

vars == <<activeTab, zipCode, loading, error, locationInfo, nriData,
          expandedHazard, hasSearched, sessions, inflight, evalScore, evalRating,
          evalKey, evalOdds, evalCounty, evalLocation, evalRequest>>

----------------------------------------------------------------------------
(* Bounds of the model *)

\* handleSearch invocations that pass validation in one run
MaxSessions == 2

\* scores are integers in units of 1/ScoreScale (42.3 is 423 when ScoreScale = 10)
ScoreScale == 10

\* the score grid runs from -MaxBelow/ScoreScale to 100 + MaxAbove/ScoreScale
MaxBelow == 20

MaxAbove == 50

----------------------------------------------------------------------------
(* JavaScript values *)

Null == [t |-> "null"]

Undefined == [t |-> "undefined"]

Num(n) == [t |-> "number", v |-> n]

Str(s) == [t |-> "string", v |-> s]

Arr(s) == [t |-> "array", v |-> s]

\* x === null || x === undefined
IsNullish(x) == x = Null \/ x = Undefined

\* the truthiness of the values the model uses: null, undefined, "", 0 and
\* the empty-array test are spelled out where the code makes them
Truthy(x) ==
    IF IsNullish(x) THEN FALSE
    ELSE IF "t" \in DOMAIN x
         THEN ~(x.t = "string" /\ x.v = "") /\ ~(x.t = "number" /\ x.v = 0)
         ELSE TRUE

Min(a, b) == IF a <= b THEN a ELSE b

----------------------------------------------------------------------------
(* Character strings *)

Digit == {"0", "1", "2", "3", "4", "5", "6", "7", "8", "9"}

Whitespace == {" "}

IsDigit(c) == c \in Digit

\* String.prototype.trim
RECURSIVE TrimStart(_)
TrimStart(s) ==
    IF s # <<>> /\ Head(s) \in Whitespace THEN TrimStart(Tail(s)) ELSE s

RECURSIVE TrimEnd(_)
TrimEnd(s) ==
    IF s # <<>> /\ s[Len(s)] \in Whitespace
    THEN TrimEnd(SubSeq(s, 1, Len(s) - 1))
    ELSE s

Trim(s) == TrimEnd(TrimStart(s))

\* a mutant of the regular expression: /^\d{1,5}$/
TestZipRegexLoose(s) ==
    /\ Len(s) >= 1
    /\ Len(s) <= 5
    /\ \A i \in 1..Len(s) : IsDigit(s[i])

\* /^\d{5}$/.test(s)
TestZipRegex(s) ==
    /\ Len(s) = 5
    /\ \A i \in 1..Len(s) : IsDigit(s[i])

\* s.replace(/\D/g, "")
RemoveNonDigits(s) == SelectSeq(s, IsDigit)

\* s.slice(0, n)
Slice0(s, n) == SubSeq(s, 1, Min(n, Len(s)))

\* s.substring(a, b) for 0 <= a <= b
Substring(s, a, b) == SubSeq(s, Min(a, Len(s)) + 1, Min(b, Len(s)))

\* the value the input's onChange stores for the typed text
SanitizeInput(raw) == Slice0(RemoveNonDigits(raw), 5)

----------------------------------------------------------------------------
(* getRiskRating *)

RISK_RATINGS == <<
    [label |-> "Very Low",            max |-> 15],
    [label |-> "Relatively Low",      max |-> 30],
    [label |-> "Relatively Moderate", max |-> 50],
    [label |-> "Relatively High",     max |-> 70],
    [label |-> "Very High",           max |-> 100] >>

NoDataRating == [label |-> "No Data"]

\* a mutant of the loop's test: score < r.max
RatingTestStrict(score, max) == score.v < max * ScoreScale

\* the loop's test score <= r.max, the score being in units of 1/ScoreScale
RatingTest(score, max) == score.v <= max * ScoreScale

RECURSIVE RatingScan(_, _)
RatingScan(score, i) ==
    IF i > Len(RISK_RATINGS) THEN RISK_RATINGS[Len(RISK_RATINGS)]
    ELSE IF RatingTest(score, RISK_RATINGS[i].max) THEN RISK_RATINGS[i]
    ELSE RatingScan(score, i + 1)

\* a mutant of getRiskRating: a negative score is rated like any other number
getRiskRatingNoSignTest(score) ==
    IF IsNullish(score) THEN NoDataRating
    ELSE RatingScan(score, 1)

getRiskRating(score) ==
    IF IsNullish(score) \/ score.v < 0 THEN NoDataRating
    ELSE RatingScan(score, 1)

----------------------------------------------------------------------------
(* scoreToOdds *)

\* the descriptors scoreToOdds returns; odds are held in thousandths (0.035
\* is 35) and the en dash of the texts is written as a hyphen
InsufficientData == [text |-> "Insufficient data", detail |-> ""]

OddsUpTo5 ==
    [text |-> "< 0.1%", detail |-> "Less than 1 in 1,000 chance per year",
     odds |-> 1]

OddsUpTo15 ==
    [text |-> "~0.1-0.5%", detail |-> "Roughly 1 in 200 to 1 in 1,000 per year",
     odds |-> 3]

OddsUpTo30 ==
    [text |-> "~0.5-2%", detail |-> "Roughly 1 in 50 to 1 in 200 per year",
     odds |-> 10]

OddsUpTo50 ==
    [text |-> "~2-5%", detail |-> "Roughly 1 in 20 to 1 in 50 per year",
     odds |-> 35]

OddsUpTo70 ==
    [text |-> "~5-15%", detail |-> "Roughly 1 in 7 to 1 in 20 per year",
     odds |-> 100]

OddsUpTo85 ==
    [text |-> "~15-30%", detail |-> "Roughly 1 in 3 to 1 in 7 per year",
     odds |-> 225]

OddsAbove85 ==
    [text |-> "> 30%", detail |-> "Greater than 1 in 3 chance per year",
     odds |-> 400]

\* a mutant of the tests of scoreToOdds: score < threshold
OddsTestStrict(score, threshold) == score.v < threshold * ScoreScale

\* score <= threshold, the score being in units of 1/ScoreScale
OddsTest(score, threshold) == score.v <= threshold * ScoreScale

\* a mutant of the first test of scoreToOdds: the sign is not tested
OddsAbsentTestNoSign(score) == IsNullish(score)

\* score === null || score === undefined || score < 0
OddsAbsentTest(score) == IsNullish(score) \/ score.v < 0

\* a mutant of scoreToOdds: the hurricane card has a wording of its own for
\* a county without data
scoreToOddsPerHazard(score, hazardKey) ==
    IF OddsAbsentTest(score)
    THEN IF hazardKey = "HRCN"
         THEN [text |-> "Not applicable", detail |-> ""]
         ELSE InsufficientData
    ELSE IF OddsTest(score, 5) THEN OddsUpTo5
    ELSE IF OddsTest(score, 15) THEN OddsUpTo15
    ELSE IF OddsTest(score, 30) THEN OddsUpTo30
    ELSE IF OddsTest(score, 50) THEN OddsUpTo50
    ELSE IF OddsTest(score, 70) THEN OddsUpTo70
    ELSE IF OddsTest(score, 85) THEN OddsUpTo85
    ELSE OddsAbove85

\* hazardKey is not read
scoreToOdds(score, hazardKey) ==
    IF OddsAbsentTest(score) THEN InsufficientData
    ELSE IF OddsTest(score, 5) THEN OddsUpTo5
    ELSE IF OddsTest(score, 15) THEN OddsUpTo15
    ELSE IF OddsTest(score, 30) THEN OddsUpTo30
    ELSE IF OddsTest(score, 50) THEN OddsUpTo50
    ELSE IF OddsTest(score, 70) THEN OddsUpTo70
    ELSE IF OddsTest(score, 85) THEN OddsUpTo85
    ELSE OddsAbove85

----------------------------------------------------------------------------
(* Messages *)

ValidationMessage == "Please enter a valid 5-digit US ZIP code."

GeocodingUnavailable == "Geocoding service unavailable"

NoLocationMessage ==
    "Could not find location for this ZIP code. Please check and try again."

NoCountyMessage == "Could not determine county for this ZIP code."

NoNRIDataMessage == "No NRI data found for this county."

FallbackMessage == "An error occurred. Please try again."

\* messages of exceptions the runtime raises itself
NetworkErrorMessage == "Failed to fetch"

TypeErrorMessage == "Cannot read properties of undefined (reading 'y')"

HttpErrorStatus == {404, 500}

\* `FEMA API error: ${response.status}`
FemaErrorMessage(status) ==
    CASE status = 404 -> "FEMA API error: 404"
      [] status = 500 -> "FEMA API error: 500"
      [] OTHER -> "FEMA API error: other"

\* what a fetch() or response.json() rejection may carry as err.message
RejectionMessages == {Str(NetworkErrorMessage), Str("")}

----------------------------------------------------------------------------
(* The outcome of an async function: a returned value or a thrown error *)

Return(x) == [threw |-> FALSE, value |-> x]

Throw(m) == [threw |-> TRUE, message |-> m]

\* obj?.field
OptGet(obj, field) == IF IsNullish(obj) THEN Undefined ELSE obj[field]

\* parseFloat of a JSON number gives the number back; of anything else NaN
NaN == [t |-> "NaN"]

ParseFloat(x) == IF x.t = "number" THEN x ELSE NaN

----------------------------------------------------------------------------
(* The Census geocoder *)

CountyLA == [STATE |-> <<"0", "6">>, COUNTY |-> <<"0", "3", "7">>,
             NAME |-> Str("Los Angeles County")]

CountyNY == [STATE |-> <<"3", "6">>, COUNTY |-> <<"0", "6", "1">>,
             NAME |-> Str("New York County")]

Counties == {CountyLA, CountyNY}

Match(counties, withCoordinates) ==
    [geographies |-> [Counties |-> counties],
     addressComponents |-> [state |-> Str("ST")],
     coordinates |-> IF withCoordinates THEN [x |-> Num(-118), y |-> Num(34)]
                     ELSE Undefined,
     matchedAddress |-> Str("matched")]

MatchNoGeographies ==
    [geographies |-> Undefined,
     addressComponents |-> Undefined,
     coordinates |-> [x |-> Num(-118), y |-> Num(34)],
     matchedAddress |-> Str("matched")]

HttpOk(data) == [type |-> "http", ok |-> TRUE, status |-> 200, data |-> data]

HttpError(status) == [type |-> "http", ok |-> FALSE, status |-> status, data |-> Undefined]

\* a response with a non-success status whose body would parse to data
HttpErrorWithBody(status, data) ==
    [type |-> "http", ok |-> FALSE, status |-> status, data |-> data]

Rejected(m) == [type |-> "rejected", message |-> m]

\* the county the geocoder knows for an address
CountyOfAddress(address) ==
    IF address = <<"9", "0", "2", "1", "0">> THEN CountyLA ELSE CountyNY

\* the answers the geocoder stub can give to one request
GeocoderResponses(request) ==
    LET here == CountyOfAddress(request.address)
        other == CHOOSE c \in Counties : c # here
    IN  {Rejected(m) : m \in RejectionMessages}
        \cup {HttpError(s) : s \in HttpErrorStatus}
        \cup {HttpErrorWithBody(500, [result |-> [addressMatches |-> Arr(<<>>)]]),
              HttpErrorWithBody(500, [result |-> [addressMatches |->
                         Arr(<<Match(Arr(<<here>>), TRUE)>>)]])}
        \cup {HttpOk([result |-> Undefined]),
              HttpOk([result |-> [addressMatches |-> Undefined]]),
              HttpOk([result |-> [addressMatches |-> Arr(<<>>)]]),
              HttpOk([result |-> [addressMatches |-> Arr(<<MatchNoGeographies>>)]]),
              HttpOk([result |-> [addressMatches |-> Arr(<<Match(Undefined, TRUE)>>)]]),
              HttpOk([result |-> [addressMatches |-> Arr(<<Match(Arr(<<>>), TRUE)>>)]]),
              HttpOk([result |-> [addressMatches |-> Arr(<<Match(Arr(<<here>>), FALSE)>>)]]),
              HttpOk([result |-> [addressMatches |-> Arr(<<Match(Arr(<<here>>), TRUE)>>)]]),
              HttpOk([result |-> [addressMatches |->
                         Arr(<<Match(Arr(<<here, other>>), TRUE), MatchNoGeographies>>)]])}

GeocodeRequest(zip) == [kind |-> "geocode", address |-> zip]

\* a mutant of LocationOf: the county code is put before the state code
LocationOfCountyFirst(match, county) ==
    IF IsNullish(match.coordinates) THEN Throw(Str(TypeErrorMessage))
    ELSE Return([fips |-> county.COUNTY \o county.STATE,
                 countyName |-> county.NAME,
                 stateName |-> OptGet(match.addressComponents, "state"),
                 lat |-> ParseFloat(match.coordinates.y),
                 lng |-> ParseFloat(match.coordinates.x),
                 matchedAddress |-> match.matchedAddress])

\* lines 146-160 of zipToCountyFips: the location built from a match and its
\* first county; reading match.coordinates.y of a match without coordinates
\* raises a TypeError
LocationOf(match, county) ==
    LET stateFips == county.STATE
        countyFips == county.COUNTY
        fullFips == stateFips \o countyFips
    IN  IF IsNullish(match.coordinates) THEN Throw(Str(TypeErrorMessage))
        ELSE Return([fips |-> fullFips,
                     countyName |-> county.NAME,
                     stateName |-> OptGet(match.addressComponents, "state"),
                     lat |-> ParseFloat(match.coordinates.y),
                     lng |-> ParseFloat(match.coordinates.x),
                     matchedAddress |-> match.matchedAddress])

\* a mutant of zipToCountyFips: a match without a county resolves to a
\* placeholder county instead of failing
zipToCountyFipsPlaceholder(response) ==
    IF response.type = "rejected" THEN Throw(response.message)
    ELSE IF ~response.ok THEN Throw(Str(GeocodingUnavailable))
    ELSE
      LET matches == OptGet(OptGet(response.data, "result"), "addressMatches")
      IN  IF IsNullish(matches) \/ matches.v = <<>> THEN Throw(Str(NoLocationMessage))
          ELSE
            LET match == matches.v[1]
                counties == OptGet(match.geographies, "Counties")
            IN  IF IsNullish(counties) \/ counties.v = <<>>
                THEN LocationOf(match, [STATE |-> <<"0", "0">>,
                                        COUNTY |-> <<"0", "0", "0">>,
                                        NAME |-> Str("Unknown")])
                ELSE LocationOf(match, counties.v[1])

\* a mutant of zipToCountyFips: the body is examined before the status
zipToCountyFipsBodyFirst(response) ==
    IF response.type = "rejected" THEN Throw(response.message)
    ELSE
      LET matches == OptGet(OptGet(response.data, "result"), "addressMatches")
      IN  IF IsNullish(matches) \/ matches.v = <<>> THEN Throw(Str(NoLocationMessage))
          ELSE
            LET match == matches.v[1]
                counties == OptGet(match.geographies, "Counties")
            IN  IF IsNullish(counties) \/ counties.v = <<>>
                THEN Throw(Str(NoCountyMessage))
                ELSE IF ~response.ok THEN Throw(Str(GeocodingUnavailable))
                ELSE LocationOf(match, counties.v[1])

\* zipToCountyFips from the answer of its fetch on
zipToCountyFips(response) ==
    IF response.type = "rejected" THEN Throw(response.message)
    ELSE IF ~response.ok THEN Throw(Str(GeocodingUnavailable))
    ELSE
      LET data == response.data
          matches == OptGet(OptGet(data, "result"), "addressMatches")
      IN  IF IsNullish(matches) \/ matches.v = <<>> THEN Throw(Str(NoLocationMessage))
          ELSE
            LET match == matches.v[1]
                geographies == match.geographies
                counties == OptGet(geographies, "Counties")
            IN  IF IsNullish(counties) \/ counties.v = <<>>
                THEN Throw(Str(NoCountyMessage))
                ELSE LocationOf(match, counties.v[1])

----------------------------------------------------------------------------
(* The OpenFEMA National Risk Index service *)

\* a score given in tenths, in units of 1/ScoreScale
Tenths(n) == Num((n * ScoreScale) \div 10)

\* the ERQK_RISKS values the service stub answers with
StubScores == {Tenths(423), Null}

NriCountyName(stateCode, countyCode) ==
    IF stateCode = CountyLA.STATE /\ countyCode = CountyLA.COUNTY THEN "Los Angeles"
    ELSE IF stateCode = CountyNY.STATE /\ countyCode = CountyNY.COUNTY THEN "New York"
    ELSE "Other"

\* a record of the data set for the county a request filters on
NriRecord(request, erqk) ==
    [county |-> Str(NriCountyName(request.stateCode, request.countyCode)),
     state |-> Str("ST"),
     stateCode |-> request.stateCode,
     countyCode |-> request.countyCode,
     ERQK_RISKS |-> erqk,
     HRCN_RISKS |-> Null,
     TRND_RISKS |-> Tenths(150),
     RFLD_RISKS |-> Tenths(0),
     WFIR_RISKS |-> Tenths(1000),
     RISK_SCORE |-> Tenths(500)]

\* the answers the service stub can give to one request
NriResponses(request) ==
    {Rejected(m) : m \in RejectionMessages}
    \cup {HttpError(s) : s \in HttpErrorStatus}
    \cup {HttpErrorWithBody(500, [NriCountyData |-> Arr(<<NriRecord(request, Null)>>)])}
    \cup {HttpOk([NriCountyData |-> Undefined]),
          HttpOk([NriCountyData |-> Arr(<<>>)])}
    \cup {HttpOk([NriCountyData |-> Arr(<<NriRecord(request, e)>>)]) : e \in StubScores}
    \cup {HttpOk([NriCountyData |-> Arr(<<NriRecord(request, e1), NriRecord(request, e2)>>)]) :
             e1 \in StubScores, e2 \in StubScores}

\* a mutant of the request: the county code is taken from substring(3, 5)
fetchNRIDataRequestShifted(countyFips) ==
    [kind |-> "nri",
     stateCode |-> Substring(countyFips, 0, 2),
     countyCode |-> Substring(countyFips, 3, 5)]

\* fetchNRIData up to its fetch: the filter of the request
fetchNRIDataRequest(countyFips) ==
    [kind |-> "nri",
     stateCode |-> Substring(countyFips, 0, 2),
     countyCode |-> Substring(countyFips, 2, 5)]

\* a mutant of fetchNRIData: the last record of the list is returned
fetchNRIDataLast(response) ==
    IF response.type = "rejected" THEN Throw(response.message)
    ELSE IF ~response.ok THEN Throw(Str(FemaErrorMessage(response.status)))
    ELSE
      LET data == response.data
      IN  IF IsNullish(data.NriCountyData) \/ data.NriCountyData.v = <<>>
          THEN Throw(Str(NoNRIDataMessage))
          ELSE Return(data.NriCountyData.v[Len(data.NriCountyData.v)])

\* fetchNRIData from the answer of its fetch on
fetchNRIData(response) ==
    IF response.type = "rejected" THEN Throw(response.message)
    ELSE IF ~response.ok THEN Throw(Str(FemaErrorMessage(response.status)))
    ELSE
      LET data == response.data
      IN  IF IsNullish(data.NriCountyData) \/ data.NriCountyData.v = <<>>
          THEN Throw(Str(NoNRIDataMessage))
          ELSE Return(data.NriCountyData.v[1])

----------------------------------------------------------------------------
(* HazardCard *)

HAZARD_CONFIG ==
    [earthquake |-> [key |-> "ERQK"],
     hurricane  |-> [key |-> "HRCN"],
     tornado    |-> [key |-> "TRND"],
     flood      |-> [key |-> "RFLD"],
     wildfire   |-> [key |-> "WFIR"]]

HazardIds == DOMAIN HAZARD_CONFIG

\* the keys the cards pass to scoreToOdds
HazardKeys == {HAZARD_CONFIG[id].key : id \in HazardIds}

\* nriData?.[`${key}_RISKS`]
RiskScoreOf(data, key) ==
    IF IsNullish(data) THEN Undefined
    ELSE CASE key = "ERQK" -> data.ERQK_RISKS
           [] key = "HRCN" -> data.HRCN_RISKS
           [] key = "TRND" -> data.TRND_RISKS
           [] key = "RFLD" -> data.RFLD_RISKS
           [] key = "WFIR" -> data.WFIR_RISKS

\* the rating a hazard card shows
HazardCardRating(hazardId, data) ==
    getRiskRating(RiskScoreOf(data, HAZARD_CONFIG[hazardId].key))

----------------------------------------------------------------------------
(* App: what is rendered *)

\* {error && ...}
ErrorBannerVisible == activeTab = "calculator" /\ Truthy(error)

\* {!loading && nriData && locationInfo && ...}
ResultsVisible ==
    activeTab = "calculator" /\ ~loading /\ Truthy(nriData) /\ Truthy(locationInfo)

\* ZIP {zipCode} of the location header of the results view
HeaderZip == zipCode

\* the search card is rendered on the calculator tab only
InputRendered == activeTab = "calculator"

\* <button onClick={handleSearch} disabled={loading}>
ButtonEnabled == InputRendered /\ ~loading

----------------------------------------------------------------------------
(* Initial state *)

AppInit ==
    /\ activeTab = "calculator"
    /\ zipCode = <<>>
    /\ loading = FALSE
    /\ error = Null
    /\ locationInfo = Null
    /\ nriData = Null
    /\ expandedHazard = Null
    /\ hasSearched = FALSE
    /\ sessions = <<>>
    /\ inflight = {}

Init ==
    /\ AppInit
    /\ evalScore = Undefined
    /\ evalRating = Undefined
    /\ evalKey = Undefined
    /\ evalOdds = Undefined
    /\ evalCounty = Undefined
    /\ evalLocation = Undefined
    /\ evalRequest = Undefined

----------------------------------------------------------------------------
(* The text a user can type or paste into the ZIP input *)

RawInputs ==
    { <<>>,
      <<"1", "2", "3", "4">>,
      <<"1", "0", "0", "0", "1", "6">>,
      <<"a", "b", "c", "d", "e">>,
      <<"9", "0", "2", "1", "0">>,
      <<" ", "9", "0", "2", "a", "1", "0">> }

Keys == {"Enter", "Tab"}

\* the hazard cards a user clicks
ClickedHazards == {"earthquake"}

Tabs == {"calculator", "methodology"}

----------------------------------------------------------------------------
(* App: event handlers *)

\* onChange={(e) => setZipCode(e.target.value.replace(/\D/g, "").slice(0, 5))}
onChange(raw) ==
    /\ InputRendered
    /\ zipCode' = SanitizeInput(raw)
    /\ UNCHANGED <<activeTab, loading, error, locationInfo, nriData, expandedHazard,
                   hasSearched, sessions, inflight, evalState>>

\* onClick={() => setActiveTab(tab.id)}
setActiveTab(tab) ==
    /\ activeTab' = tab
    /\ UNCHANGED <<zipCode, loading, error, locationInfo, nriData, expandedHazard,
                   hasSearched, sessions, inflight, evalState>>

\* onToggle={() => setExpandedHazard(expandedHazard === id ? null : id)}
onToggle(id) ==
    /\ ResultsVisible
    /\ expandedHazard' = IF expandedHazard = Str(id) THEN Null ELSE Str(id)
    /\ UNCHANGED <<activeTab, zipCode, loading, error, locationInfo, nriData,
                   hasSearched, sessions, inflight, evalState>>

\* a lookup from its first await on: the locals of one handleSearch invocation
NewSession(cleaned) ==
    [zip |-> cleaned,
     pc |-> "awaitGeocode",
     location |-> Undefined,
     calls |-> <<"geocode">>]

\* a handleSearch invocation that has returned: its locals are gone (the
\* empty sequence and Undefined stand for the values that exist no more)
SettledSession(session, outcome) ==
    [zip |-> <<>>,
     pc |-> outcome,
     location |-> Undefined,
     calls |-> session.calls]

\* a mutant of handleSearch: the results are reset before the input is
\* validated
handleSearchResetsFirst ==
    LET cleaned == Trim(zipCode)
    IN  IF ~TestZipRegex(cleaned)
        THEN /\ error' = Str(ValidationMessage)
             /\ nriData' = Null
             /\ locationInfo' = Null
             /\ expandedHazard' = Null
             /\ UNCHANGED <<activeTab, zipCode, loading, hasSearched, sessions,
                            inflight, evalState>>
        ELSE /\ Len(sessions) < MaxSessions
             /\ loading' = TRUE
             /\ error' = Null
             /\ nriData' = Null
             /\ locationInfo' = Null
             /\ expandedHazard' = Null
             /\ hasSearched' = TRUE
             /\ sessions' = Append(sessions, NewSession(cleaned))
             /\ inflight' = inflight \cup
                    {[session |-> Len(sessions) + 1, request |-> GeocodeRequest(cleaned)]}
             /\ UNCHANGED <<activeTab, zipCode, evalState>>

\* handleSearch up to its first await
handleSearch ==
    LET cleaned == Trim(zipCode)
    IN  IF ~TestZipRegex(cleaned)
        THEN /\ error' = Str(ValidationMessage)
             /\ UNCHANGED <<activeTab, zipCode, loading, locationInfo, nriData,
                            expandedHazard, hasSearched, sessions, inflight, evalState>>
        ELSE /\ Len(sessions) < MaxSessions
             /\ loading' = TRUE
             /\ error' = Null
             /\ nriData' = Null
             /\ locationInfo' = Null
             /\ expandedHazard' = Null
             /\ hasSearched' = TRUE
             /\ sessions' = Append(sessions, NewSession(cleaned))
             /\ inflight' = inflight \cup
                    {[session |-> Len(sessions) + 1, request |-> GeocodeRequest(cleaned)]}
             /\ UNCHANGED <<activeTab, zipCode, evalState>>

\* the submit button, which is disabled while loading
ClickAssessRisk ==
    /\ ButtonEnabled
    /\ handleSearch

\* onKeyDown={handleKeyDown}: if (e.key === "Enter") handleSearch()
handleKeyDown(key) ==
    /\ InputRendered
    /\ IF key = "Enter" THEN handleSearch ELSE UNCHANGED vars

\* a mutant of the catch clause: every failure is shown as the generic message
CatchMessageGeneric(message) == Str(FallbackMessage)

\* err.message || "An error occurred. Please try again."
CatchMessage(message) == IF Truthy(message) THEN message ELSE Str(FallbackMessage)

\* a mutant of the finally clause: the flag is left as it is
finallyKeepsLoading == UNCHANGED loading

\* finally { setLoading(false) }
finallyBlock == loading' = FALSE

\* catch (err) { setError(...) } finally { ... } of session s
CatchAndFinish(s, message, request) ==
    /\ error' = CatchMessage(message)
    /\ finallyBlock
    /\ sessions' = [sessions EXCEPT ![s] = SettledSession(@, "Failed")]
    /\ inflight' = inflight \ {[session |-> s, request |-> request]}

\* the geocoder answers session s: handleSearch from line 569 to its next await
GeocoderResponds(s, response) ==
    /\ s \in DOMAIN sessions
    /\ sessions[s].pc = "awaitGeocode"
    /\ [session |-> s, request |-> GeocodeRequest(sessions[s].zip)] \in inflight
    /\ LET request == GeocodeRequest(sessions[s].zip)
           outcome == zipToCountyFips(response)
       IN  IF outcome.threw
           THEN /\ CatchAndFinish(s, outcome.message, request)
                /\ UNCHANGED <<activeTab, zipCode, locationInfo, nriData,
                               expandedHazard, hasSearched, evalState>>
           ELSE LET location == outcome.value
                    next == fetchNRIDataRequest(location.fips)
                IN  /\ locationInfo' = location
                    /\ sessions' = [sessions EXCEPT ![s].pc = "awaitNRI",
                                                    ![s].location = location,
                                                    ![s].calls = Append(@, next.kind)]
                    /\ inflight' = (inflight \ {[session |-> s, request |-> request]})
                                       \cup {[session |-> s, request |-> next]}
                    /\ UNCHANGED <<activeTab, zipCode, loading, error, nriData,
                                   expandedHazard, hasSearched, evalState>>

\* the NRI service answers session s: handleSearch from line 573 to its end
NriServiceResponds(s, response) ==
    /\ s \in DOMAIN sessions
    /\ sessions[s].pc = "awaitNRI"
    /\ [session |-> s, request |-> fetchNRIDataRequest(sessions[s].location.fips)] \in inflight
    /\ LET request == fetchNRIDataRequest(sessions[s].location.fips)
           outcome == fetchNRIData(response)
       IN  IF outcome.threw
           THEN /\ CatchAndFinish(s, outcome.message, request)
                /\ UNCHANGED <<activeTab, zipCode, locationInfo, nriData,
                               expandedHazard, hasSearched, evalState>>
           ELSE /\ nriData' = outcome.value
                /\ finallyBlock
                /\ sessions' = [sessions EXCEPT ![s] = SettledSession(@, "Success")]
                /\ inflight' = inflight \ {[session |-> s, request |-> request]}
                /\ UNCHANGED <<activeTab, zipCode, error, locationInfo,
                               expandedHazard, hasSearched, evalState>>

\* the sessions that wait for the geocoder
AwaitingGeocoder == {s \in DOMAIN sessions : sessions[s].pc = "awaitGeocode"}

\* what the geocoder can answer to the request session s has in flight
GeocoderAnswers(s) == GeocoderResponses(GeocodeRequest(sessions[s].zip))

\* the sessions that wait for the NRI service
AwaitingNri == {s \in DOMAIN sessions : sessions[s].pc = "awaitNRI"}

\* what the service can answer to the request session s has in flight
NriAnswers(s) == NriResponses(fetchNRIDataRequest(sessions[s].location.fips))

\* the await of line 569 of session s resumes
ResumeAfterGeocoder(s) ==
    /\ s \in AwaitingGeocoder
    /\ \E response \in GeocoderAnswers(s) : GeocoderResponds(s, response)

\* the await of line 573 of session s resumes
ResumeAfterNri(s) ==
    /\ s \in AwaitingNri
    /\ \E response \in NriAnswers(s) : NriServiceResponds(s, response)

Next ==
    \/ \E raw \in RawInputs : onChange(raw)
    \/ ClickAssessRisk
    \/ \E key \in Keys : handleKeyDown(key)
    \/ \E s \in 1..MaxSessions : ResumeAfterGeocoder(s)
    \/ \E s \in 1..MaxSessions : ResumeAfterNri(s)
    \/ \E tab \in Tabs : setActiveTab(tab)
    \/ \E id \in ClickedHazards : onToggle(id)

Spec == Init /\ [][Next]_vars

\* every fetch is answered or rejected in the end, after which the awaiting
\* handleSearch resumes
LiveSpec ==
    /\ Spec
    /\ \A s \in 1..MaxSessions :
          WF_vars(ResumeAfterGeocoder(s)) /\ WF_vars(ResumeAfterNri(s))

----------------------------------------------------------------------------
(* Direct calls of the pure functions *)

ScoreGrid ==
    {Null, Undefined} \cup {Num(n) : n \in (0 - MaxBelow) .. (100 * ScoreScale + MaxAbove)}

PureInit ==
    /\ AppInit
    /\ evalScore \in ScoreGrid
    /\ evalKey \in {Str(key) : key \in HazardKeys}
    /\ evalRating = Undefined
    /\ evalOdds = Undefined
    /\ evalCounty = Undefined
    /\ evalLocation = Undefined
    /\ evalRequest = Undefined

\* const rating = getRiskRating(score)
CallGetRiskRating ==
    /\ evalRating = Undefined
    /\ evalRating' = getRiskRating(evalScore)
    /\ UNCHANGED <<appState, sessions, inflight, evalScore, evalKey, evalOdds,
                   evalCounty, evalLocation, evalRequest>>

\* const odds = scoreToOdds(score, key)
CallScoreToOdds ==
    /\ evalOdds = Undefined
    /\ evalOdds' = scoreToOdds(evalScore, evalKey.v)
    /\ UNCHANGED <<appState, sessions, inflight, evalScore, evalKey, evalRating,
                   evalCounty, evalLocation, evalRequest>>

PureNext == CallGetRiskRating \/ CallScoreToOdds

PureSpec == PureInit /\ [][PureNext]_vars

----------------------------------------------------------------------------
(* Direct calls of zipToCountyFips and fetchNRIData on one county entry *)

FipsDigits == {"0", "3", "6"}

\* the character strings of a given length over FipsDigits
CodesOfLength(n) == [1..n -> FipsDigits]

\* county entries as the geocoder may return them: the STATE and COUNTY
\* codes of the Census are of 2 and 3 characters; shorter ones show what the
\* code does with an entry that is not
CountyEntries ==
    {[STATE |-> state, COUNTY |-> county, NAME |-> Str("County")] :
        state \in CodesOfLength(1) \cup CodesOfLength(2),
        county \in CodesOfLength(2) \cup CodesOfLength(3)}

FipsInit ==
    /\ AppInit
    /\ evalScore = Undefined
    /\ evalRating = Undefined
    /\ evalKey = Undefined
    /\ evalOdds = Undefined
    /\ evalCounty \in CountyEntries
    /\ evalLocation = Undefined
    /\ evalRequest = Undefined

\* const location = await zipToCountyFips(cleaned), the geocoder answering
\* with one match in the county
CallZipToCountyFips ==
    /\ evalLocation = Undefined
    /\ LET response ==
               HttpOk([result |-> [addressMatches |->
                          Arr(<<Match(Arr(<<evalCounty>>), TRUE)>>)]])
       IN  evalLocation' = zipToCountyFips(response).value
    /\ UNCHANGED <<appState, sessions, inflight, evalScore, evalRating, evalKey,
                   evalOdds, evalCounty, evalRequest>>

\* fetchNRIData(location.fips) up to its fetch
CallFetchNRIData ==
    /\ evalLocation # Undefined
    /\ evalRequest = Undefined
    /\ evalRequest' = fetchNRIDataRequest(evalLocation.fips)
    /\ UNCHANGED <<appState, sessions, inflight, evalScore, evalRating, evalKey,
                   evalOdds, evalCounty, evalLocation>>

FipsNext == CallZipToCountyFips \/ CallFetchNRIData

FipsSpec == FipsInit /\ [][FipsNext]_vars

----------------------------------------------------------------------------
(* The calls a rendered hazard card makes *)

\* HazardCard for hazardId in the results view: lines 230-237
RenderHazardCard(hazardId) ==
    /\ ResultsVisible
    /\ LET key == HAZARD_CONFIG[hazardId].key
           riskScore == RiskScoreOf(nriData, key)
       IN  /\ evalScore' = riskScore
           /\ evalKey' = Str(key)
           /\ evalRating' = getRiskRating(riskScore)
           /\ evalOdds' = scoreToOdds(riskScore, key)
    /\ UNCHANGED <<appState, sessions, inflight, evalCounty, evalLocation, evalRequest>>

RenderNext ==
    \/ Next
    \/ \E hazardId \in HazardIds : RenderHazardCard(hazardId)

RenderSpec == Init /\ [][RenderNext]_vars

----------------------------------------------------------------------------
(* Vocabulary of the properties *)

\* a handleSearch call made through the button or through the Enter key
SubmitStep == ClickAssessRisk \/ handleKeyDown("Enter")

\* the text consists of exactly five digits
ExactlyFiveDigits(text) ==
    /\ Len(text) = 5
    /\ \A i \in 1..Len(text) : text[i] \in Digit

\* the hazard-index requests a session has issued so far
NriCallsOf(session) == SelectSeq(session.calls, LAMBDA kind : kind = "nri")

\* the requests of session s that have not been answered
OutstandingOf(s) == {m \in inflight : m.session = s}

Settled(s) == s \in DOMAIN sessions /\ sessions[s].pc \in {"Success", "Failed"}

Pending(s) == s \in DOMAIN sessions /\ sessions[s].pc \in {"awaitGeocode", "awaitNRI"}

\* the three ways the answer of the geocoder makes location resolution fail
NonSuccessStatus(response) == response.type = "http" /\ ~response.ok

ZeroAddressMatches(response) ==
    /\ response.type = "http" /\ response.ok
    /\ \/ response.data.result = Undefined
       \/ response.data.result.addressMatches = Undefined
       \/ response.data.result.addressMatches = Arr(<<>>)

MatchWithoutCounty(response) ==
    /\ response.type = "http" /\ response.ok
    /\ ~ZeroAddressMatches(response)
    /\ LET first == response.data.result.addressMatches.v[1]
       IN  \/ first.geographies = Undefined
           \/ first.geographies.Counties = Undefined
           \/ first.geographies.Counties = Arr(<<>>)

LocationResolutionFails(response) ==
    \/ NonSuccessStatus(response)
    \/ ZeroAddressMatches(response)
    \/ MatchWithoutCounty(response)

----------------------------------------------------------------------------
(* C1 *)

\* session s takes a step: every step of a session changes its position
Moves(s) == sessions'[s].pc # sessions[s].pc

\* C1: a session whose location resolution fails (non-success status, zero
\* address matches, or a match with no county) ends Failed in that very step
\* with no hazard-index request issued, and a Failed session never takes
\* another step, so its count of fetchNRIData calls stays 0.
C1_FailedResolutionNeverFetches ==
    [][ /\ \A s \in AwaitingGeocoder :
              Moves(s) =>
                  \A response \in GeocoderAnswers(s) :
                      (LocationResolutionFails(response) /\ GeocoderResponds(s, response))
                          => /\ sessions'[s].pc = "Failed"
                             /\ Len(NriCallsOf(sessions'[s])) = 0
                             /\ OutstandingOf(s)' = {}
        /\ \A s \in DOMAIN sessions :
              sessions[s].pc = "Failed"
                  => sessions'[s] = sessions[s] /\ OutstandingOf(s)' = {}
      ]_vars

\* a session failed at location resolution for want of a county
C1_Witness ==
    \E s \in DOMAIN sessions :
        /\ sessions[s].pc = "Failed"
        /\ sessions[s].calls = <<"geocode">>
        /\ error = Str(NoCountyMessage)

----------------------------------------------------------------------------
(* C2 *)

\* C2: a submission (button or Enter) of an input that is not exactly five
\* digits sets the validation message, starts no session and issues no request.
C2_InvalidInputRejected ==
    [][ (SubmitStep /\ ~ExactlyFiveDigits(zipCode))
            => /\ error' = Str(ValidationMessage)
               /\ sessions' = sessions
               /\ inflight' = inflight
      ]_vars

\* a too short input has been rejected before any lookup was started
C2_Witness ==
    /\ error = Str(ValidationMessage)
    /\ zipCode = <<"1", "2", "3", "4">>
    /\ sessions = <<>>
    /\ inflight = {}

----------------------------------------------------------------------------
(* C3 *)

\* C3: the calls of a session are a prefix of <geocoding, hazard-index>: one
\* geocoding request for the submitted ZIP, then at most one hazard-index
\* request, issued only once the geocoding request is answered with a
\* location and filtering on that location's FIPS; at most one request of a
\* session is outstanding at any time, none once it is settled.
C3_SequentialCalls ==
    \A s \in DOMAIN sessions :
        LET session == sessions[s]
        IN  /\ session.calls \in {<<"geocode">>, <<"geocode", "nri">>}
            /\ session.pc = "awaitGeocode" =>
                  /\ session.calls = <<"geocode">>
                  /\ OutstandingOf(s) =
                        {[session |-> s,
                          request |-> [kind |-> "geocode", address |-> session.zip]]}
            /\ session.pc = "awaitNRI" =>
                  /\ session.calls = <<"geocode", "nri">>
                  /\ session.location # Undefined
                  /\ Cardinality(OutstandingOf(s)) = 1
                  /\ \A m \in OutstandingOf(s) :
                        /\ m.request.kind = "nri"
                        /\ m.request.stateCode \o m.request.countyCode
                              = session.location.fips
            /\ Settled(s) => OutstandingOf(s) = {}
            /\ session.pc = "Success" => session.calls = <<"geocode", "nri">>

\* a session has issued its hazard-index request after its geocoding request
C3_Witness ==
    \E s \in DOMAIN sessions :
        /\ sessions[s].pc = "awaitNRI"
        /\ sessions[s].calls = <<"geocode", "nri">>
        /\ \E m \in OutstandingOf(s) : m.request.kind = "nri"

----------------------------------------------------------------------------
(* C4 *)

\* C4: while the busy flag is set, a submit action (button click or Enter
\* keypress) starts no session, issues no request and changes no state.
C4_BusyRefusesSubmit ==
    [][ (loading /\ SubmitStep) => UNCHANGED <<appState, sessions, inflight>> ]_vars

----------------------------------------------------------------------------
(* C5 *)

\* the county a risk record belongs to
RecordFips(record) == record.stateCode \o record.countyCode

\* C5: when a location and a risk record are both stored, the record was
\* fetched for the stored location's FIPS: both come from the same session.
C5_ResultSlotConsistent ==
    (Truthy(locationInfo) /\ Truthy(nriData)) => RecordFips(nriData) = locationInfo.fips

----------------------------------------------------------------------------
(* C6 *)

\* a submission that validation rejects
RejectedSubmit == SubmitStep /\ ~TestZipRegex(Trim(zipCode))

\* session s reaches Failed in this step
FailsNow(s) == Pending(s) /\ sessions'[s].pc = "Failed"

\* C6: once a submission has ended in Failed (rejected by validation, or its
\* session failed at either stage) no risk record of an earlier lookup is
\* stored any more, so that the results view is not shown with the error.
C6_FailedDiscardsPriorResults ==
    [][ (RejectedSubmit \/ \E s \in DOMAIN sessions : FailsNow(s))
            => /\ nriData' = Null
               /\ ~ResultsVisible'
      ]_vars

----------------------------------------------------------------------------
(* C7 *)

\* C7: the step in which the second call of a session succeeds ends the
\* session in Success with the stored location the one its resolver
\* returned, the stored record the one its fetcher returned, no error and
\* the busy flag cleared; a record with ERQK_RISKS = 42.3 is shown as
\* "Relatively Moderate".
C7_SuccessHoldsBothResults ==
    [][ \A s \in AwaitingNri : \A response \in NriAnswers(s) :
            (Moves(s) /\ NriServiceResponds(s, response) /\ ~fetchNRIData(response).threw)
                => /\ sessions'[s].pc = "Success"
                   /\ locationInfo' = sessions[s].location
                   /\ nriData' = response.data.NriCountyData.v[1]
                   /\ error' = Null
                   /\ loading' = FALSE
                   /\ nriData'.ERQK_RISKS = Tenths(423) =>
                         HazardCardRating("earthquake", nriData').label
                             = "Relatively Moderate"
      ]_vars

----------------------------------------------------------------------------
(* C8 *)

\* the message of the failure an answer makes the awaited call throw
ThrownBy(outcome) == outcome.message

\* C8: when the resolver or the fetcher throws, the error is the thrown
\* message itself if there is one and the generic fallback message if there
\* is none, it is never empty, the session is Failed and has no request
\* outstanding, and a Failed session takes no further step.
ErrorIsThrownMessage(s, outcome) ==
    /\ outcome.threw
    => /\ Truthy(ThrownBy(outcome)) => error' = ThrownBy(outcome)
       /\ ~Truthy(ThrownBy(outcome)) => error' = Str(FallbackMessage)
       /\ (error' = Str(FallbackMessage)) =>
             (~Truthy(ThrownBy(outcome)) \/ ThrownBy(outcome) = Str(FallbackMessage))
       /\ Truthy(error')
       /\ sessions'[s].pc = "Failed"
       /\ sessions'[s].calls = sessions[s].calls
       /\ OutstandingOf(s)' = {}

C8_ErrorMessageVerbatim ==
    [][ /\ \A s \in AwaitingGeocoder : \A response \in GeocoderAnswers(s) :
              (Moves(s) /\ GeocoderResponds(s, response))
                  => ErrorIsThrownMessage(s, zipToCountyFips(response))
        /\ \A s \in AwaitingNri : \A response \in NriAnswers(s) :
              (Moves(s) /\ NriServiceResponds(s, response))
                  => ErrorIsThrownMessage(s, fetchNRIData(response))
        /\ \A s \in DOMAIN sessions :
              sessions[s].pc = "Failed" => sessions'[s] = sessions[s]
      ]_vars

\* the fetcher failed with the status of the service in its message
C8_Witness ==
    \E s \in DOMAIN sessions :
        /\ sessions[s].pc = "Failed"
        /\ sessions[s].calls = <<"geocode", "nri">>
        /\ error = Str(FemaErrorMessage(500))
        /\ ~loading

----------------------------------------------------------------------------
(* C9 *)

\* a settled session is never started again and issues no further request
NeverRetried ==
    \A s \in DOMAIN sessions :
        Settled(s) => (sessions'[s] = sessions[s] /\ OutstandingOf(s)' = {})

\* C9: every session in flight reaches Success or Failed, with the busy flag
\* cleared by the step that settles it, provided its fetches are answered;
\* once settled it is not retried.
C9_SessionsTerminate ==
    /\ \A s \in 1..MaxSessions : Pending(s) ~> (Settled(s) /\ ~loading)
    /\ [][NeverRetried]_vars

\* one session has succeeded and another has failed, and the flag is clear
C9_Witness ==
    /\ \E s \in DOMAIN sessions : sessions[s].pc = "Success"
    /\ \E s \in DOMAIN sessions : sessions[s].pc = "Failed"
    /\ \A s \in DOMAIN sessions : Settled(s)
    /\ ~loading

----------------------------------------------------------------------------
(* C10 *)

\* the score of a direct call as a number of 1/ScoreScale
Within(lo, hi) ==
    /\ evalScore.t = "number"
    /\ lo * ScoreScale < evalScore.v
    /\ evalScore.v <= hi * ScoreScale

\* C10: for a present score s with 0 <= s <= 100 the label is "Very Low" iff
\* 0 <= s <= 15, "Relatively Low" iff 15 < s <= 30, "Relatively Moderate" iff
\* 30 < s <= 50, "Relatively High" iff 50 < s <= 70 and "Very High" iff
\* 70 < s <= 100, so 15, 30, 50 and 70 fall in the lower band.
C10_BandsOfScore ==
    (/\ evalRating # Undefined
     /\ ~IsNullish(evalScore)
     /\ 0 <= evalScore.v
     /\ evalScore.v <= 100 * ScoreScale)
    => /\ evalRating.label = "Very Low" <=> (evalScore.v = 0 \/ Within(0, 15))
       /\ evalRating.label = "Relatively Low" <=> Within(15, 30)
       /\ evalRating.label = "Relatively Moderate" <=> Within(30, 50)
       /\ evalRating.label = "Relatively High" <=> Within(50, 70)
       /\ evalRating.label = "Very High" <=> Within(70, 100)
       /\ evalRating \in {RISK_RATINGS[i] : i \in DOMAIN RISK_RATINGS}

\* the boundary score 15 has been classified, into the lower band
C10_Witness ==
    /\ evalScore = Num(15 * ScoreScale)
    /\ evalRating # Undefined
    /\ evalRating.label = "Very Low"

----------------------------------------------------------------------------
(* C11 *)

\* the score of a direct call is null, undefined or below zero
AbsentOrNegative == IsNullish(evalScore) \/ evalScore.v < 0

\* C11: getRiskRating returns the "No Data" band for null, for undefined and
\* for every negative score, and for no present score >= 0; "No Data" is not
\* one of the five ordered tiers.
C11_NoDataBand ==
    /\ evalRating # Undefined =>
          /\ evalRating.label = "No Data" <=> AbsentOrNegative
          /\ AbsentOrNegative <=> evalRating \notin {RISK_RATINGS[i] : i \in DOMAIN RISK_RATINGS}
    /\ \A i \in DOMAIN RISK_RATINGS : RISK_RATINGS[i].label # "No Data"

\* the score -1 has been classified as "No Data"
C11_Witness ==
    /\ evalScore = Num(0 - ScoreScale)
    /\ evalRating # Undefined
    /\ evalRating.label = "No Data"

----------------------------------------------------------------------------
(* C12 *)

\* the seven fixed descriptors of the table
OddsBuckets ==
    {OddsUpTo5, OddsUpTo15, OddsUpTo30, OddsUpTo50, OddsUpTo70, OddsUpTo85, OddsAbove85}

\* C12: for a present score s >= 0 scoreToOdds returns the descriptor of the
\* first bucket whose threshold 5, 15, 30, 50, 70, 85 (then unbounded) is
\* >= s, so every threshold value falls in the lower bucket, and the result is
\* one of the seven fixed table entries.
C12_OddsBuckets ==
    (evalOdds # Undefined /\ ~AbsentOrNegative)
    => /\ evalOdds.text = "< 0.1%" <=> (evalScore.v = 0 \/ Within(0, 5))
       /\ evalOdds.text = "~0.1-0.5%" <=> Within(5, 15)
       /\ evalOdds.text = "~0.5-2%" <=> Within(15, 30)
       /\ evalOdds.text = "~2-5%" <=> Within(30, 50)
       /\ evalOdds.text = "~5-15%" <=> Within(50, 70)
       /\ evalOdds.text = "~15-30%" <=> Within(70, 85)
       /\ evalOdds.text = "> 30%" <=> evalScore.v > 85 * ScoreScale
       /\ evalOdds \in OddsBuckets
       /\ \A bucket \in OddsBuckets : bucket.text = evalOdds.text => bucket = evalOdds

\* the threshold score 85 has been given the bucket below it
C12_Witness ==
    /\ evalScore = Num(85 * ScoreScale)
    /\ evalOdds # Undefined
    /\ evalOdds.text = "~15-30%"

----------------------------------------------------------------------------
(* C13 *)

\* C13: for null, for undefined and for every negative score scoreToOdds
\* returns the text "Insufficient data" with an empty detail and no odds
\* value; no present score >= 0 gets this descriptor.
C13_InsufficientData ==
    evalOdds # Undefined =>
        /\ AbsentOrNegative =>
              /\ evalOdds.text = "Insufficient data"
              /\ evalOdds.detail = ""
              /\ "odds" \notin DOMAIN evalOdds
        /\ ~AbsentOrNegative =>
              /\ evalOdds.text # "Insufficient data"
              /\ "odds" \in DOMAIN evalOdds

\* an undefined score has been given the insufficient-data descriptor
C13_Witness ==
    /\ evalScore = Undefined
    /\ evalOdds # Undefined
    /\ evalOdds.text = "Insufficient data"

----------------------------------------------------------------------------
(* C14 *)

\* C14: the resolver's three failures have pairwise different messages and
\* are decided in this order: a non-success status gives "Geocoding service
\* unavailable" whatever the body holds, otherwise zero address matches give
\* the no-location message, otherwise a first match without a county gives
\* the no-county message; the resolver returns a location only when none of
\* the three holds.
C14_ResolverFailuresInOrder ==
    [][ /\ Cardinality({GeocodingUnavailable, NoLocationMessage, NoCountyMessage}) = 3
        /\ \A s \in AwaitingGeocoder :
              Moves(s) =>
                  \A response \in GeocoderAnswers(s) :
                      GeocoderResponds(s, response) =>
                          /\ NonSuccessStatus(response) =>
                                /\ error' = Str("Geocoding service unavailable")
                                /\ sessions'[s].pc = "Failed"
                          /\ ZeroAddressMatches(response) =>
                                /\ error' = Str(NoLocationMessage)
                                /\ sessions'[s].pc = "Failed"
                          /\ MatchWithoutCounty(response) =>
                                /\ error' = Str(NoCountyMessage)
                                /\ sessions'[s].pc = "Failed"
                          /\ sessions'[s].pc = "awaitNRI" =>
                                ~LocationResolutionFails(response)
      ]_vars

\* a session failed because the geocoder answered with a non-success status
C14_Witness ==
    \E s \in DOMAIN sessions :
        /\ sessions[s].pc = "Failed"
        /\ sessions[s].calls = <<"geocode">>
        /\ error = Str(GeocodingUnavailable)

----------------------------------------------------------------------------
(* C15 *)

\* the answer of the service holds no record list or an empty one
NoRecords(response) ==
    /\ response.type = "http" /\ response.ok
    /\ \/ response.data.NriCountyData = Undefined
       \/ response.data.NriCountyData = Arr(<<>>)

\* the answer of the service holds at least one record
SomeRecords(response) ==
    /\ response.type = "http" /\ response.ok
    /\ ~NoRecords(response)

\* C15: the fetcher fails with "FEMA API error: <status>" when the status is
\* not a success (whatever the body holds), fails with the no-data message
\* when the answer holds no record list or an empty one, and otherwise
\* returns exactly the first record of the list, lists of two records included.
C15_FetcherOutcomes ==
    [][ \A s \in AwaitingNri :
            Moves(s) =>
                \A response \in NriAnswers(s) :
                    NriServiceResponds(s, response) =>
                        /\ NonSuccessStatus(response) =>
                              /\ response.status = 404 => error' = Str("FEMA API error: 404")
                              /\ response.status = 500 => error' = Str("FEMA API error: 500")
                              /\ response.status \in {404, 500}
                              /\ sessions'[s].pc = "Failed"
                              /\ nriData' = nriData
                        /\ NoRecords(response) =>
                              /\ error' = Str("No NRI data found for this county.")
                              /\ sessions'[s].pc = "Failed"
                              /\ nriData' = nriData
                        /\ SomeRecords(response) =>
                              /\ nriData' = response.data.NriCountyData.v[1]
                              /\ sessions'[s].pc = "Success"
      ]_vars

\* a session has stored the record the service returned for its county
C15_Witness ==
    \E s \in DOMAIN sessions :
        /\ sessions[s].pc = "Success"
        /\ Truthy(nriData)
        /\ nriData.ERQK_RISKS = Tenths(423)
        /\ error = Null

----------------------------------------------------------------------------
(* C16 *)

\* a hazard card is rendered: getRiskRating and scoreToOdds are called
CardCall == \E hazardId \in HazardIds : RenderHazardCard(hazardId)

----------------------------------------------------------------------------
(* C17 *)

\* the county entry has a STATE of 2 and a COUNTY of 3 characters
WellFormed(county) == Len(county.STATE) = 2 /\ Len(county.COUNTY) = 3

\* the county entries a request of the fetcher selects
SelectedBy(request) ==
    {county \in CountyEntries :
        county.STATE = request.stateCode /\ county.COUNTY = request.countyCode}

\* C17: for a county entry with a 2-character STATE and a 3-character
\* COUNTY the resolver's fips is STATE followed by COUNTY, and the request of
\* the fetcher built from that fips filters on exactly that STATE and that
\* COUNTY, so it selects this county and no other.
C17_FipsRoundTrip ==
    WellFormed(evalCounty) =>
        /\ evalLocation # Undefined =>
              /\ evalLocation.fips = evalCounty.STATE \o evalCounty.COUNTY
              /\ Len(evalLocation.fips) = 5
        /\ evalRequest # Undefined =>
              /\ evalRequest.stateCode = evalCounty.STATE
              /\ evalRequest.countyCode = evalCounty.COUNTY
              /\ SelectedBy(evalRequest) = {evalCounty}

\* the request for county 06/036 has been built from the fips 06036
C17_Witness ==
    /\ evalCounty.STATE = <<"0", "6">>
    /\ evalCounty.COUNTY = <<"0", "3", "6">>
    /\ evalLocation # Undefined
    /\ evalLocation.fips = <<"0", "6", "0", "3", "6">>
    /\ evalRequest # Undefined
    /\ evalRequest.countyCode = <<"0", "3", "6">>

----------------------------------------------------------------------------
(* C18 *)

\* C18: the busy flag is set exactly when some session started by a valid
\* submission has not reached Success or Failed yet.
C18_BusyFlagAccurate ==
    loading <=> \E s \in DOMAIN sessions : Pending(s)

----------------------------------------------------------------------------
(* C19 *)

\* C19: a submission that validation rejects sets the validation message and
\* leaves the stored location, the stored record, the busy flag, the
\* expanded hazard, the has-searched flag and the input text as they were;
\* it starts no session and issues no request.
C19_RejectedSubmitFrame ==
    [][ RejectedSubmit
            => /\ error' = Str(ValidationMessage)
               /\ UNCHANGED <<locationInfo, nriData, loading, expandedHazard,
                              hasSearched, zipCode, activeTab, sessions, inflight>>
      ]_vars

\* a submission was rejected while a location and a record were stored and
\* a hazard card was expanded
C19_Witness ==
    /\ error = Str(ValidationMessage)
    /\ Truthy(locationInfo)
    /\ Truthy(nriData)
    /\ expandedHazard = Str("earthquake")
    /\ hasSearched
    /\ ~TestZipRegex(Trim(zipCode))

----------------------------------------------------------------------------
(* C20 *)

\* session s stores its record in this step and the results view shows it
ShowsResultsOf(s) ==
    /\ Moves(s)
    /\ sessions'[s].pc = "Success"
    /\ ResultsVisible'

\* the results view stays visible with the same location and record
SameResultsShown ==
    /\ ResultsVisible
    /\ ResultsVisible'
    /\ nriData' = nriData
    /\ locationInfo' = locationInfo

\* C20: the ZIP of the location header is the ZIP submitted for the lookup
\* whose results are shown: it is that ZIP when the results appear, and it
\* stays the same for as long as these results are shown, whatever is typed
\* into the input.
C20_HeaderShowsSubmittedZip ==
    [][ /\ \A s \in AwaitingNri : ShowsResultsOf(s) => HeaderZip' = sessions[s].zip
        /\ SameResultsShown => HeaderZip' = HeaderZip
      ]_vars

====
